---- MODULE Spec2Model ----
(***************************************************************************)
(* State-machine model of the DEX program (src/src/processor.rs,           *)
(* src/src/state.rs): the Market and Order records held in program-owned   *)
(* accounts, the four instructions of Processor::process, and the token    *)
(* ledger the instructions call through invoke / invoke_signed.            *)
(*                                                                         *)
(* Every account starts allocated, owned by the program and zero-filled,   *)
(* as the tests set them up (tests/market_test.rs:40-49,                   *)
(* tests/order_test.rs:99-108), so the create_account branches are not     *)
(* taken.  An instruction that returns Err has its account writes          *)
(* discarded by the host (the entrypoint returns the ProgramResult to the  *)
(* runtime); the wrote field of an outcome records whether account data    *)
(* had been written before the error.                                      *)
(***************************************************************************)
EXTENDS Integers, Sequences, FiniteSets, TLC

VARIABLES
  markets,    \* the Market record each market account holds
  orders,     \* the Order record each order account holds
  balance,    \* the ledger: token balance of each token account and the
              \* custody balance of each order account
  last,       \* the last committed instruction
  placed,     \* history: the order ids assigned on each market account, in order
  nops        \* number of committed instructions

vars == <<markets, orders, balance, last, placed, nops>>

----------------------------------------------------------------------------
(* Bounds of the model *)

\* Largest value of the unsigned integer type the model uses for u64.
U64_MAX == 1073741823

\* Number of successful instructions in one behaviour.
MaxOps == 4

\* Tokens each wallet's token account holds at the start.
InitialBalance == 6

----------------------------------------------------------------------------
(* Identities and instruction inputs *)

Keys == {"alice", "bob"}

\* Pubkey::default(), the all-zero key of a zero-filled record.
NoKey == "none"

MarketAccts == {"m1", "m2"}

OrderAccts == {"o1", "o2"}

TokenAccts == {"ta", "tb", "tf"}

\* The token accounts PlaceLimitOrder and CancelOrder are called with.
OwnerTokenAccts == {"ta", "tb"}

\* The wallet that owns each token account (the ledger's authority for it).
tokenOwner == [t \in TokenAccts |->
                 IF t = "ta" THEN "alice" ELSE IF t = "tb" THEN "bob" ELSE "carol"]

BaseMints == {"mintB"}

QuoteMints == {"mintQ"}

\* The configurations InitializeMarket is called with.
MarketConfigs ==
  { [min_base_order_size |-> 3, tick_size |-> 2, fee_rate_bps |-> 2500],
    [min_base_order_size |-> 1, tick_size |-> 0, fee_rate_bps |-> 0],
    [min_base_order_size |-> 3, tick_size |-> 2, fee_rate_bps |-> 12500] }

Prices == {0, 2, 3}

Quantities == {1, 3}

SelfTradeBehavior == {"DecrementTake", "CancelProvide", "AbortTransaction"}

\* The self-trade behaviours PlaceLimitOrder is called with.
PlacedBehaviors == {"DecrementTake"}

\* Clock::get()?.unix_timestamp values.
Timestamps == {100}

BaseAmounts == {1}

QuoteAmounts == {4}

\* The token accounts a SettleFunds call references.
SettleAccounts ==
  { [taker_base |-> "ta", taker_quote |-> "ta", maker_base |-> "tb",
     maker_quote |-> "tb", fee_recipient |-> "tf"],
    [taker_base |-> "tb", taker_quote |-> "tb", maker_base |-> "ta",
     maker_quote |-> "ta", fee_recipient |-> "tf"] }

\* Whether a call is signed or is the one unsigned call of its instruction:
\* every handler returns on a missing signature before it reads anything
\* else, so one unsigned call stands for all of them.
SignedOr(c, unsigned) == c.is_signer \/ c = unsigned

\* The InitializeMarket calls.  Market account m1 is initialized by either
\* wallet with the first two configurations and by bob with the third, m2 by
\* alice with the first one.
InitializeCalls ==
  { c \in { [is_signer |-> s, authority |-> a, market |-> m, base_mint |-> b,
             quote_mint |-> q, min_base_order_size |-> cfg.min_base_order_size,
             tick_size |-> cfg.tick_size, fee_rate_bps |-> cfg.fee_rate_bps] :
             s \in BOOLEAN, a \in Keys, m \in MarketAccts, b \in BaseMints,
             q \in QuoteMints, cfg \in MarketConfigs } :
      /\ c.market = "m2" => (c.authority = "alice" /\ c.fee_rate_bps = 2500)
      /\ c.fee_rate_bps = 12500 => c.authority = "bob"
      /\ SignedOr(c, [is_signer |-> FALSE, authority |-> "alice", market |-> "m1",
                      base_mint |-> "mintB", quote_mint |-> "mintQ",
                      min_base_order_size |-> 3, tick_size |-> 2,
                      fee_rate_bps |-> 2500]) }

\* One placement by alice on m1 into o1 stands for those the handler turns
\* down whatever the other inputs are.
Representative(c, token, limit_price, quantity) ==
  /\ c.owner = "alice" /\ c.market = "m1" /\ c.order = "o1" /\ c.is_buy
  /\ c.token = token /\ c.limit_price = limit_price /\ c.quantity = quantity

\* The PlaceLimitOrder calls: every signer, market, order account and side
\* at price 2 and quantity 3 from the signer's own token account, and one
\* call each at price 0, at the off-tick price 3, at the quantity 1 below
\* the minimum, from a token account of another wallet, and unsigned.
PlaceCalls ==
  { c \in [is_signer : BOOLEAN, owner : Keys, market : MarketAccts,
           order : OrderAccts, token : OwnerTokenAccts, is_buy : BOOLEAN,
           limit_price : Prices, quantity : Quantities,
           self_trade_behavior : PlacedBehaviors, timestamp : Timestamps] :
      /\ c.limit_price = 0 => Representative(c, "ta", 0, 3)
      /\ c.limit_price = 3 => Representative(c, "ta", 3, 3)
      /\ c.quantity = 1 => Representative(c, "ta", 2, 1)
      /\ tokenOwner[c.token] # c.owner => Representative(c, "tb", 2, 3)
      /\ SignedOr(c, [is_signer |-> FALSE, owner |-> "alice", market |-> "m1",
                      order |-> "o1", token |-> "ta", is_buy |-> TRUE,
                      limit_price |-> 2, quantity |-> 3,
                      self_trade_behavior |-> "DecrementTake",
                      timestamp |-> 100]) }

\* The CancelOrder calls.
CancelCalls ==
  { c \in [is_signer : BOOLEAN, owner : Keys, market : MarketAccts,
           order : OrderAccts, token : OwnerTokenAccts] :
      SignedOr(c, [is_signer |-> FALSE, owner |-> "alice", market |-> "m1",
                   order |-> "o1", token |-> "ta"]) }

\* The SettleFunds calls.
SettleCalls ==
  { c \in [is_signer : BOOLEAN, authority : Keys, market : MarketAccts,
           accounts : SettleAccounts, base_amount : BaseAmounts,
           quote_amount : QuoteAmounts] :
      SignedOr(c, [is_signer |-> FALSE, authority |-> "alice", market |-> "m1",
                   accounts |-> [taker_base |-> "ta", taker_quote |-> "ta",
                                 maker_base |-> "tb", maker_quote |-> "tb",
                                 fee_recipient |-> "tf"],
                   base_amount |-> 1, quote_amount |-> 4]) }

----------------------------------------------------------------------------
(* Records (state.rs) *)

\* A zero-filled Market account, as unpacked by Market::unpack_from_slice.
ZeroMarket ==
  [is_initialized |-> FALSE, authority |-> NoKey, base_mint |-> NoKey,
   quote_mint |-> NoKey, min_base_order_size |-> 0, tick_size |-> 0,
   fee_rate_bps |-> 0, next_order_id |-> 0, num_bids |-> 0, num_asks |-> 0]

\* A zero-filled Order account, as unpacked by Order::unpack_from_slice.
ZeroOrder ==
  [is_initialized |-> FALSE, order_id |-> 0, owner |-> NoKey, market |-> NoKey,
   is_buy |-> FALSE, limit_price |-> 0, original_quantity |-> 0,
   remaining_quantity |-> 0, creation_timestamp |-> 0]

\* The value standing for None / Err of a checked operation.
Overflow == -1

\* checked_mul that returns the largest value when the product is out of
\* range.
checked_mul_Saturating(a, b) ==
  IF b # 0 /\ a > U64_MAX \div b THEN U64_MAX ELSE a * b

\* u64::checked_mul; the product is formed only when it is in range.
checked_mul(a, b) ==
  IF b # 0 /\ a > U64_MAX \div b THEN Overflow ELSE a * b

\* u64::checked_sub
checked_sub(a, b) == IF a < b THEN Overflow ELSE a - b

\* saturating_sub as a plain subtraction.
saturating_sub_Plain(a, b) == a - b

\* u64::saturating_sub
saturating_sub(a, b) == IF a < b THEN 0 ELSE a - b

\* calculate_fee that leaves out the division by 10000.
calculate_fee_NoDivision(market, trade_value) ==
  checked_mul(trade_value, market.fee_rate_bps)

\* calculate_fee that divides by 100000.
calculate_fee_WrongDivisor(market, trade_value) ==
  LET product == checked_mul(trade_value, market.fee_rate_bps)
  IN  IF product = Overflow THEN Overflow ELSE product \div 100000

\* Market::calculate_fee
calculate_fee(market, trade_value) ==
  LET product == checked_mul(trade_value, market.fee_rate_bps)
  IN  IF product = Overflow THEN Overflow ELSE product \div 10000

----------------------------------------------------------------------------
(* Serialization of the records (state.rs, derive(BorshSerialize,          *)
(* BorshDeserialize)): fields in declaration order, integers little-endian *)
(* at their fixed width, a bool as one byte 0 or 1, a Pubkey as its 32     *)
(* bytes.                                                                  *)

\* v as n little-endian bytes.
RECURSIVE to_le_bytes(_, _)
to_le_bytes(v, n) ==
  IF n = 0 THEN <<>> ELSE <<v % 256>> \o to_le_bytes(v \div 256, n - 1)

\* u64::from_le_bytes of the 8 bytes of data that start at index i.
u64_from_le_bytes(data, i) ==
  data[i] + 256 * (data[i + 1] + 256 * (data[i + 2] + 256 * (data[i + 3]
    + 256 * (data[i + 4] + 256 * (data[i + 5] + 256 * (data[i + 6]
    + 256 * data[i + 7]))))))

\* u16::from_le_bytes of the 2 bytes of data that start at index i.
u16_from_le_bytes(data, i) == data[i] + 256 * data[i + 1]

\* The identities that occur as a Pubkey; the i-th one has the bytes
\* <<i - 1, 0, ..., 0>>, so Pubkey::default() is all zero.
Pubkeys == <<NoKey, "alice", "bob", "m1", "m2", "mintB", "mintQ">>

Pubkey_to_bytes(key) ==
  LET i == CHOOSE i \in 1..Len(Pubkeys) : Pubkeys[i] = key
  IN  <<i - 1>> \o [j \in 1..31 |-> 0]

Pubkey_from_bytes(bytes) ==
  LET i == CHOOSE i \in 1..Len(Pubkeys) : Pubkey_to_bytes(Pubkeys[i]) = bytes
  IN  Pubkeys[i]

bool_to_byte(b) == IF b THEN 1 ELSE 0

\* What unpack_from_slice returns for bytes that are not a record.
InvalidAccountData == [error |-> "InvalidAccountData"]

\* Market::LEN
Market_LEN == 139

\* Market_pack_into_slice with num_bids and num_asks written in each other's
\* place.
Market_pack_SwappedCounts(market) ==
  <<bool_to_byte(market.is_initialized)>>
    \o Pubkey_to_bytes(market.authority)
    \o Pubkey_to_bytes(market.base_mint)
    \o Pubkey_to_bytes(market.quote_mint)
    \o to_le_bytes(market.min_base_order_size, 8)
    \o to_le_bytes(market.tick_size, 8)
    \o to_le_bytes(market.fee_rate_bps, 2)
    \o to_le_bytes(market.next_order_id, 8)
    \o to_le_bytes(market.num_asks, 8)
    \o to_le_bytes(market.num_bids, 8)

\* Market::pack_into_slice
Market_pack_into_slice(market) ==
  <<bool_to_byte(market.is_initialized)>>
    \o Pubkey_to_bytes(market.authority)
    \o Pubkey_to_bytes(market.base_mint)
    \o Pubkey_to_bytes(market.quote_mint)
    \o to_le_bytes(market.min_base_order_size, 8)
    \o to_le_bytes(market.tick_size, 8)
    \o to_le_bytes(market.fee_rate_bps, 2)
    \o to_le_bytes(market.next_order_id, 8)
    \o to_le_bytes(market.num_bids, 8)
    \o to_le_bytes(market.num_asks, 8)

\* Market::unpack_from_slice: try_from_slice fails on a buffer that is not
\* consumed exactly and on a bool byte other than 0 and 1.
Market_unpack_from_slice(src) ==
  IF Len(src) # Market_LEN \/ src[1] \notin {0, 1} THEN InvalidAccountData
  ELSE [is_initialized |-> src[1] = 1,
        authority |-> Pubkey_from_bytes(SubSeq(src, 2, 33)),
        base_mint |-> Pubkey_from_bytes(SubSeq(src, 34, 65)),
        quote_mint |-> Pubkey_from_bytes(SubSeq(src, 66, 97)),
        min_base_order_size |-> u64_from_le_bytes(src, 98),
        tick_size |-> u64_from_le_bytes(src, 106),
        fee_rate_bps |-> u16_from_le_bytes(src, 114),
        next_order_id |-> u64_from_le_bytes(src, 116),
        num_bids |-> u64_from_le_bytes(src, 124),
        num_asks |-> u64_from_le_bytes(src, 132)]

\* Order::LEN
Order_LEN == 106

\* Order::pack_into_slice
Order_pack_into_slice(order) ==
  <<bool_to_byte(order.is_initialized)>>
    \o to_le_bytes(order.order_id, 8)
    \o Pubkey_to_bytes(order.owner)
    \o Pubkey_to_bytes(order.market)
    \o <<bool_to_byte(order.is_buy)>>
    \o to_le_bytes(order.limit_price, 8)
    \o to_le_bytes(order.original_quantity, 8)
    \o to_le_bytes(order.remaining_quantity, 8)
    \o to_le_bytes(order.creation_timestamp, 8)

\* Order::unpack_from_slice
Order_unpack_from_slice(src) ==
  IF Len(src) # Order_LEN \/ src[1] \notin {0, 1} \/ src[74] \notin {0, 1}
    THEN InvalidAccountData
  ELSE [is_initialized |-> src[1] = 1,
        order_id |-> u64_from_le_bytes(src, 2),
        owner |-> Pubkey_from_bytes(SubSeq(src, 10, 41)),
        market |-> Pubkey_from_bytes(SubSeq(src, 42, 73)),
        is_buy |-> src[74] = 1,
        limit_price |-> u64_from_le_bytes(src, 75),
        original_quantity |-> u64_from_le_bytes(src, 83),
        remaining_quantity |-> u64_from_le_bytes(src, 91),
        creation_timestamp |-> u64_from_le_bytes(src, 99)]

----------------------------------------------------------------------------
(* The token ledger reached through invoke / invoke_signed *)

Holders == TokenAccts \cup OrderAccts

\* Whether the ledger accepts `authority` for a debit of `from`: a wallet's
\* token account is debited by its owner or by a market's derived signing
\* capability, an order's custody balance by the order account's own.
Authorized(from, authority) ==
  IF from \in TokenAccts
    THEN tokenOwner[from] = authority \/ authority \in MarketAccts
    ELSE authority = from

TransferRequest(from, to, authority, amount) ==
  [from |-> from, to |-> to, authority |-> authority, amount |-> amount]

\* Whether the ledger accepts the transfer on balances `bal`.
TransferOk(bal, req) ==
  Authorized(req.from, req.authority) /\ bal[req.from] >= req.amount

\* ApplyTransfer that credits the receiver without debiting the sender.
ApplyTransfer_NoDebit(bal, req) ==
  [bal EXCEPT ![req.to] = @ + req.amount]

\* The balances after an accepted transfer.
ApplyTransfer(bal, req) ==
  [bal EXCEPT ![req.from] = @ - req.amount, ![req.to] = @ + req.amount]

----------------------------------------------------------------------------
(* Outcome of one instruction: its result and the account state the host   *)
(* commits; a failing instruction commits nothing.                         *)

Fail(err, wrote, transfers) ==
  [result |-> err, markets |-> markets, orders |-> orders, balance |-> balance,
   transfers |-> transfers, wrote |-> wrote]

Success(mk, od, bal, transfers) ==
  [result |-> "Ok", markets |-> mk, orders |-> od, balance |-> bal,
   transfers |-> transfers, wrote |-> TRUE]

----------------------------------------------------------------------------
(* InitializeMarket (processor.rs:85-152) *)

\* InitialMarket with the two mints stored in each other's field.
InitialMarket_SwappedMints(authority, base_mint, quote_mint, min_base_order_size, tick_size, fee_rate_bps) ==
  [is_initialized |-> TRUE, authority |-> authority, base_mint |-> quote_mint,
   quote_mint |-> base_mint, min_base_order_size |-> min_base_order_size,
   tick_size |-> tick_size, fee_rate_bps |-> fee_rate_bps,
   next_order_id |-> 1, num_bids |-> 0, num_asks |-> 0]

\* The Market record process_initialize_market builds.
InitialMarket(authority, base_mint, quote_mint, min_base_order_size, tick_size, fee_rate_bps) ==
  [is_initialized |-> TRUE, authority |-> authority, base_mint |-> base_mint,
   quote_mint |-> quote_mint, min_base_order_size |-> min_base_order_size,
   tick_size |-> tick_size, fee_rate_bps |-> fee_rate_bps,
   next_order_id |-> 1, num_bids |-> 0, num_asks |-> 0]

\* process_initialize_market without the signer check.
process_initialize_market_NoSignerCheck(is_signer, authority, m, base_mint, quote_mint, min_base_order_size, tick_size, fee_rate_bps) ==
  Success([markets EXCEPT ![m] =
             InitialMarket(authority, base_mint, quote_mint,
                           min_base_order_size, tick_size, fee_rate_bps)],
          orders, balance, <<>>)

process_initialize_market(is_signer, authority, m, base_mint, quote_mint, min_base_order_size, tick_size, fee_rate_bps) ==
  IF ~is_signer
    THEN Fail("AccountNotAuthorized", FALSE, <<>>)
    ELSE Success([markets EXCEPT ![m] =
                    InitialMarket(authority, base_mint, quote_mint,
                                  min_base_order_size, tick_size, fee_rate_bps)],
                 orders, balance, <<>>)

----------------------------------------------------------------------------
(* PlaceLimitOrder (processor.rs:155-303) *)

\* ValidateOrder without the minimum-size check.
ValidateOrder_NoSizeCheck(market, limit_price, quantity) ==
  IF market.tick_size = 0 THEN "Panic"
  ELSE IF limit_price % market.tick_size # 0 THEN "InvalidOrderPrice"
  ELSE "Ok"

\* The checks of the order parameters against the market, in the code's
\* order; limit_price % 0 panics.
ValidateOrder(market, limit_price, quantity) ==
  IF quantity < market.min_base_order_size THEN "InvalidOrderSize"
  ELSE IF market.tick_size = 0 THEN "Panic"
  ELSE IF limit_price % market.tick_size # 0 THEN "InvalidOrderPrice"
  ELSE "Ok"

\* NewOrder whose remaining_quantity is one above the quantity.
NewOrder_RemainingAbove(market, owner, m, is_buy, limit_price, quantity, timestamp) ==
  [is_initialized |-> TRUE, order_id |-> market.next_order_id, owner |-> owner,
   market |-> m, is_buy |-> is_buy, limit_price |-> limit_price,
   original_quantity |-> quantity, remaining_quantity |-> quantity + 1,
   creation_timestamp |-> timestamp]

\* The Order record process_place_limit_order builds.
NewOrder(market, owner, m, is_buy, limit_price, quantity, timestamp) ==
  [is_initialized |-> TRUE, order_id |-> market.next_order_id, owner |-> owner,
   market |-> m, is_buy |-> is_buy, limit_price |-> limit_price,
   original_quantity |-> quantity, remaining_quantity |-> quantity,
   creation_timestamp |-> timestamp]

\* MarketAfterPlace that forgets to advance next_order_id.
MarketAfterPlace_NoIdIncrement(market, is_buy) ==
  [market EXCEPT !.num_bids = IF is_buy THEN @ + 1 ELSE @,
                 !.num_asks = IF is_buy THEN @ ELSE @ + 1]

\* MarketAfterPlace that counts the order on both sides.
MarketAfterPlace_BothCounts(market, is_buy) ==
  [market EXCEPT !.next_order_id = @ + 1,
                 !.num_bids = @ + 1,
                 !.num_asks = @ + 1]

\* The market counters after a placement.
MarketAfterPlace(market, is_buy) ==
  [market EXCEPT !.next_order_id = @ + 1,
                 !.num_bids = IF is_buy THEN @ + 1 ELSE @,
                 !.num_asks = IF is_buy THEN @ ELSE @ + 1]

\* LockAmount that locks the quantity for a buy order as well.
LockAmount_QuantityOnly(is_buy, limit_price, quantity) == quantity

\* The amount a placement locks.
LockAmount(is_buy, limit_price, quantity) ==
  IF is_buy THEN checked_mul(limit_price, quantity) ELSE quantity

\* process_place_limit_order that turns down a placement whose
\* self_trade_behavior is AbortTransaction.
process_place_limit_order_AbortsSelfTrade(is_signer, owner, m, o, t, is_buy, limit_price, quantity, self_trade_behavior, timestamp) ==
  LET market == markets[m]
      valid  == ValidateOrder(market, limit_price, quantity)
      amount == LockAmount(is_buy, limit_price, quantity)
      req    == TransferRequest(t, o, owner, amount)
  IN  IF ~is_signer THEN Fail("AccountNotAuthorized", FALSE, <<>>)
      ELSE IF ~market.is_initialized THEN Fail("InvalidAccountData", FALSE, <<>>)
      ELSE IF valid # "Ok" THEN Fail(valid, FALSE, <<>>)
      ELSE IF self_trade_behavior = "AbortTransaction"
        THEN Fail("InvalidInstructionData", FALSE, <<>>)
      ELSE IF amount = Overflow THEN Fail("ArithmeticOverflow", TRUE, <<>>)
      ELSE IF ~TransferOk(balance, req) THEN Fail("TransferRejected", TRUE, <<req>>)
      ELSE Success([markets EXCEPT ![m] = MarketAfterPlace(market, is_buy)],
                   [orders EXCEPT ![o] =
                      NewOrder(market, owner, m, is_buy, limit_price, quantity,
                               timestamp)],
                   ApplyTransfer(balance, req), <<req>>)

process_place_limit_order(is_signer, owner, m, o, t, is_buy, limit_price, quantity, self_trade_behavior, timestamp) ==
  LET market == markets[m]
      valid  == ValidateOrder(market, limit_price, quantity)
      amount == LockAmount(is_buy, limit_price, quantity)
      req    == TransferRequest(t, o, owner, amount)
  IN  IF ~is_signer THEN Fail("AccountNotAuthorized", FALSE, <<>>)
      ELSE IF ~market.is_initialized THEN Fail("InvalidAccountData", FALSE, <<>>)
      ELSE IF valid # "Ok" THEN Fail(valid, FALSE, <<>>)
      ELSE IF amount = Overflow THEN Fail("ArithmeticOverflow", TRUE, <<>>)
      ELSE IF ~TransferOk(balance, req) THEN Fail("TransferRejected", TRUE, <<req>>)
      ELSE Success([markets EXCEPT ![m] = MarketAfterPlace(market, is_buy)],
                   [orders EXCEPT ![o] =
                      NewOrder(market, owner, m, is_buy, limit_price, quantity,
                               timestamp)],
                   ApplyTransfer(balance, req), <<req>>)

----------------------------------------------------------------------------
(* CancelOrder (processor.rs:306-422) *)

\* ValidateCancel without the comparison of the caller with the order's owner.
ValidateCancel_NoOwnerCheck(is_signer, owner, order, market, m) ==
  IF ~is_signer THEN "AccountNotAuthorized"
  ELSE IF ~order.is_initialized THEN "InvalidAccountData"
  ELSE IF ~market.is_initialized THEN "InvalidAccountData"
  ELSE IF order.market # m THEN "InvalidAccountData"
  ELSE "Ok"

\* ValidateCancel without the comparison of the order's market with the
\* market account of the call.
ValidateCancel_NoMarketCheck(is_signer, owner, order, market, m) ==
  IF ~is_signer THEN "AccountNotAuthorized"
  ELSE IF ~order.is_initialized THEN "InvalidAccountData"
  ELSE IF order.owner # owner THEN "AccountNotAuthorized"
  ELSE IF ~market.is_initialized THEN "InvalidAccountData"
  ELSE "Ok"

\* The checks of the caller against the order and the market, in the code's
\* order.
ValidateCancel(is_signer, owner, order, market, m) ==
  IF ~is_signer THEN "AccountNotAuthorized"
  ELSE IF ~order.is_initialized THEN "InvalidAccountData"
  ELSE IF order.owner # owner THEN "AccountNotAuthorized"
  ELSE IF ~market.is_initialized THEN "InvalidAccountData"
  ELSE IF order.market # m THEN "InvalidAccountData"
  ELSE "Ok"

\* ReleaseAmount that releases the quantity for a buy order as well.
ReleaseAmount_QuantityOnly(order) == order.remaining_quantity

\* The amount a cancellation releases.
ReleaseAmount(order) ==
  IF order.is_buy THEN checked_mul(order.limit_price, order.remaining_quantity)
  ELSE order.remaining_quantity

\* The market counters after a cancellation.
MarketAfterCancel(market, order) ==
  [market EXCEPT !.num_bids = IF order.is_buy THEN saturating_sub(@, 1) ELSE @,
                 !.num_asks = IF order.is_buy THEN @ ELSE saturating_sub(@, 1)]

\* process_cancel_order that leaves the order record in its account.
process_cancel_order_KeepsOrder(is_signer, owner, m, o, t) ==
  LET order  == orders[o]
      market == markets[m]
      valid  == ValidateCancel(is_signer, owner, order, market, m)
      amount == ReleaseAmount(order)
      req    == TransferRequest(o, t, o, amount)
  IN  IF valid # "Ok" THEN Fail(valid, FALSE, <<>>)
      ELSE IF amount = Overflow THEN Fail("ArithmeticOverflow", FALSE, <<>>)
      ELSE IF ~TransferOk(balance, req) THEN Fail("TransferRejected", FALSE, <<req>>)
      ELSE Success([markets EXCEPT ![m] = MarketAfterCancel(market, order)],
                   orders, ApplyTransfer(balance, req), <<req>>)

process_cancel_order(is_signer, owner, m, o, t) ==
  LET order  == orders[o]
      market == markets[m]
      valid  == ValidateCancel(is_signer, owner, order, market, m)
      amount == ReleaseAmount(order)
      req    == TransferRequest(o, t, o, amount)
  IN  IF valid # "Ok" THEN Fail(valid, FALSE, <<>>)
      ELSE IF amount = Overflow THEN Fail("ArithmeticOverflow", FALSE, <<>>)
      ELSE IF ~TransferOk(balance, req) THEN Fail("TransferRejected", FALSE, <<req>>)
      ELSE Success([markets EXCEPT ![m] = MarketAfterCancel(market, order)],
                   [orders EXCEPT ![o] = ZeroOrder],
                   ApplyTransfer(balance, req), <<req>>)

----------------------------------------------------------------------------
(* SettleFunds (processor.rs:425-534) *)

\* ValidateSettle without the comparison of the caller with market.authority.
ValidateSettle_NoAuthorityCheck(is_signer, authority, market) ==
  IF ~is_signer THEN "AccountNotAuthorized"
  ELSE IF ~market.is_initialized THEN "InvalidAccountData"
  ELSE "Ok"

\* ValidateSettle without the test of market.is_initialized.
ValidateSettle_NoInitializedCheck(is_signer, authority, market) ==
  IF ~is_signer THEN "AccountNotAuthorized"
  ELSE IF market.authority # authority THEN "AccountNotAuthorized"
  ELSE "Ok"

\* The checks of the caller against the market, in the code's order.
ValidateSettle(is_signer, authority, market) ==
  IF ~is_signer THEN "AccountNotAuthorized"
  ELSE IF ~market.is_initialized THEN "InvalidAccountData"
  ELSE IF market.authority # authority THEN "AccountNotAuthorized"
  ELSE "Ok"

\* process_settle_funds that takes the settled maker order out of the
\* market's count of asks.
process_settle_funds_DecrementsAsks(is_signer, authority, m, accts, base_amount, quote_amount) ==
  LET market == markets[m]
      valid  == ValidateSettle(is_signer, authority, market)
      fee    == calculate_fee(market, quote_amount)
      quote_amount_after_fee == checked_sub(quote_amount, fee)
      req1   == TransferRequest(accts.maker_base, accts.taker_base, m, base_amount)
      req2   == TransferRequest(accts.taker_quote, accts.maker_quote, m,
                                quote_amount_after_fee)
      req3   == TransferRequest(accts.taker_quote, accts.fee_recipient, m, fee)
      bal1   == ApplyTransfer(balance, req1)
      bal2   == ApplyTransfer(bal1, req2)
      bal3   == ApplyTransfer(bal2, req3)
      mk     == [markets EXCEPT ![m].num_asks = saturating_sub(@, 1)]
  IN  IF valid # "Ok" THEN Fail(valid, FALSE, <<>>)
      ELSE IF fee = Overflow THEN Fail("ArithmeticOverflow", FALSE, <<>>)
      ELSE IF quote_amount_after_fee = Overflow
        THEN Fail("ArithmeticOverflow", FALSE, <<>>)
      ELSE IF ~TransferOk(balance, req1) THEN Fail("TransferRejected", FALSE, <<req1>>)
      ELSE IF ~TransferOk(bal1, req2)
        THEN Fail("TransferRejected", FALSE, <<req1, req2>>)
      ELSE IF fee = 0 THEN Success(mk, orders, bal2, <<req1, req2>>)
      ELSE IF ~TransferOk(bal2, req3)
        THEN Fail("TransferRejected", FALSE, <<req1, req2, req3>>)
      ELSE Success(mk, orders, bal3, <<req1, req2, req3>>)

\* process_settle_funds that asks for the fee transfer whatever the fee is.
process_settle_funds_AlwaysFeeTransfer(is_signer, authority, m, accts, base_amount, quote_amount) ==
  LET market == markets[m]
      valid  == ValidateSettle(is_signer, authority, market)
      fee    == calculate_fee(market, quote_amount)
      quote_amount_after_fee == checked_sub(quote_amount, fee)
      req1   == TransferRequest(accts.maker_base, accts.taker_base, m, base_amount)
      req2   == TransferRequest(accts.taker_quote, accts.maker_quote, m,
                                quote_amount_after_fee)
      req3   == TransferRequest(accts.taker_quote, accts.fee_recipient, m, fee)
      bal1   == ApplyTransfer(balance, req1)
      bal2   == ApplyTransfer(bal1, req2)
      bal3   == ApplyTransfer(bal2, req3)
  IN  IF valid # "Ok" THEN Fail(valid, FALSE, <<>>)
      ELSE IF fee = Overflow THEN Fail("ArithmeticOverflow", FALSE, <<>>)
      ELSE IF quote_amount_after_fee = Overflow
        THEN Fail("ArithmeticOverflow", FALSE, <<>>)
      ELSE IF ~TransferOk(balance, req1) THEN Fail("TransferRejected", FALSE, <<req1>>)
      ELSE IF ~TransferOk(bal1, req2)
        THEN Fail("TransferRejected", FALSE, <<req1, req2>>)
      ELSE IF ~TransferOk(bal2, req3)
        THEN Fail("TransferRejected", FALSE, <<req1, req2, req3>>)
      ELSE Success(markets, orders, bal3, <<req1, req2, req3>>)

process_settle_funds(is_signer, authority, m, accts, base_amount, quote_amount) ==
  LET market == markets[m]
      valid  == ValidateSettle(is_signer, authority, market)
      fee    == calculate_fee(market, quote_amount)
      quote_amount_after_fee == checked_sub(quote_amount, fee)
      req1   == TransferRequest(accts.maker_base, accts.taker_base, m, base_amount)
      req2   == TransferRequest(accts.taker_quote, accts.maker_quote, m,
                                quote_amount_after_fee)
      req3   == TransferRequest(accts.taker_quote, accts.fee_recipient, m, fee)
      bal1   == ApplyTransfer(balance, req1)
      bal2   == ApplyTransfer(bal1, req2)
      bal3   == ApplyTransfer(bal2, req3)
  IN  IF valid # "Ok" THEN Fail(valid, FALSE, <<>>)
      ELSE IF fee = Overflow THEN Fail("ArithmeticOverflow", FALSE, <<>>)
      ELSE IF quote_amount_after_fee = Overflow
        THEN Fail("ArithmeticOverflow", FALSE, <<>>)
      ELSE IF ~TransferOk(balance, req1) THEN Fail("TransferRejected", FALSE, <<req1>>)
      ELSE IF ~TransferOk(bal1, req2)
        THEN Fail("TransferRejected", FALSE, <<req1, req2>>)
      ELSE IF fee = 0 THEN Success(markets, orders, bal2, <<req1, req2>>)
      ELSE IF ~TransferOk(bal2, req3)
        THEN Fail("TransferRejected", FALSE, <<req1, req2, req3>>)
      ELSE Success(markets, orders, bal3, <<req1, req2, req3>>)

----------------------------------------------------------------------------
(* Instruction data (instruction.rs, derive(BorshSerialize,                *)
(* BorshDeserialize) on DexInstruction): one byte for the variant, then    *)
(* the variant's fields at their fixed width.                              *)

\* The variants of SelfTradeBehavior in declaration order.
SelfTradeBehaviorVariants == <<"DecrementTake", "CancelProvide", "AbortTransaction">>

\* DexInstruction::try_to_vec
DexInstruction_try_to_vec(instruction) ==
  IF instruction.tag = "InitializeMarket"
    THEN <<0>> \o to_le_bytes(instruction.min_base_order_size, 8)
             \o to_le_bytes(instruction.tick_size, 8)
             \o to_le_bytes(instruction.fee_rate_bps, 2)
  ELSE IF instruction.tag = "PlaceLimitOrder"
    THEN <<1, bool_to_byte(instruction.is_buy)>>
           \o to_le_bytes(instruction.limit_price, 8)
           \o to_le_bytes(instruction.quantity, 8)
           \o <<(CHOOSE i \in 1..3 : SelfTradeBehaviorVariants[i]
                                        = instruction.self_trade_behavior) - 1>>
  ELSE IF instruction.tag = "CancelOrder" THEN <<2>>
  ELSE <<3>> \o to_le_bytes(instruction.base_amount, 8)
             \o to_le_bytes(instruction.quote_amount, 8)

\* ExactLen that accepts bytes after the instruction.
ExactLen_OrLonger(data, n) == Len(data) >= n

\* try_from_slice reads the n bytes of the variant and fails when bytes are
\* missing or left over.
ExactLen(data, n) == Len(data) = n

\* What try_from_slice returns for bytes that are not an instruction.
DecodeError == [tag |-> "InvalidInstructionData"]

\* DexInstruction::try_from_slice
DexInstruction_try_from_slice(data) ==
  IF data = <<>> THEN DecodeError
  ELSE IF data[1] = 0
    THEN IF ExactLen(data, 19)
           THEN [tag |-> "InitializeMarket",
                 min_base_order_size |-> u64_from_le_bytes(data, 2),
                 tick_size |-> u64_from_le_bytes(data, 10),
                 fee_rate_bps |-> u16_from_le_bytes(data, 18)]
           ELSE DecodeError
  ELSE IF data[1] = 1
    THEN IF ExactLen(data, 19) /\ data[2] \in {0, 1} /\ data[19] \in {0, 1, 2}
           THEN [tag |-> "PlaceLimitOrder",
                 is_buy |-> data[2] = 1,
                 limit_price |-> u64_from_le_bytes(data, 3),
                 quantity |-> u64_from_le_bytes(data, 11),
                 self_trade_behavior |-> SelfTradeBehaviorVariants[data[19] + 1]]
           ELSE DecodeError
  ELSE IF data[1] = 2
    THEN IF ExactLen(data, 1) THEN [tag |-> "CancelOrder"] ELSE DecodeError
  ELSE IF data[1] = 3
    THEN IF ExactLen(data, 17)
           THEN [tag |-> "SettleFunds",
                 base_amount |-> u64_from_le_bytes(data, 2),
                 quote_amount |-> u64_from_le_bytes(data, 10)]
           ELSE DecodeError
  ELSE DecodeError

\* Processor::process: the instruction is decoded, then handled with the
\* accounts (and the clock) of the call.
process(a, instruction_data) ==
  LET instruction == DexInstruction_try_from_slice(instruction_data)
  IN  IF instruction = DecodeError
        THEN Fail("InvalidInstructionData", FALSE, <<>>)
      ELSE IF instruction.tag = "InitializeMarket"
        THEN process_initialize_market(a.is_signer, a.authority, a.market,
                                       a.base_mint, a.quote_mint,
                                       instruction.min_base_order_size,
                                       instruction.tick_size,
                                       instruction.fee_rate_bps)
      ELSE IF instruction.tag = "PlaceLimitOrder"
        THEN process_place_limit_order(a.is_signer, a.owner, a.market, a.order,
                                       a.token, instruction.is_buy,
                                       instruction.limit_price,
                                       instruction.quantity,
                                       instruction.self_trade_behavior,
                                       a.timestamp)
      ELSE IF instruction.tag = "CancelOrder"
        THEN process_cancel_order(a.is_signer, a.owner, a.market, a.order, a.token)
      ELSE process_settle_funds(a.is_signer, a.authority, a.market, a.accounts,
                                instruction.base_amount, instruction.quote_amount)

\* The instruction data a client builds for a call (DexInstruction::
\* initialize_market, place_limit_order, cancel_order, settle_funds).
InstructionData(tag, c) ==
  DexInstruction_try_to_vec(
    IF tag = "InitializeMarket"
      THEN [tag |-> tag, min_base_order_size |-> c.min_base_order_size,
            tick_size |-> c.tick_size, fee_rate_bps |-> c.fee_rate_bps]
    ELSE IF tag = "PlaceLimitOrder"
      THEN [tag |-> tag, is_buy |-> c.is_buy, limit_price |-> c.limit_price,
            quantity |-> c.quantity,
            self_trade_behavior |-> c.self_trade_behavior]
    ELSE IF tag = "CancelOrder" THEN [tag |-> tag]
    ELSE [tag |-> tag, base_amount |-> c.base_amount,
          quote_amount |-> c.quote_amount])

\* Buffers that are not an instruction, made from a well-formed one: an
\* unrecognized tag, a truncated payload, trailing bytes, a bool byte and a
\* self-trade-behavior byte out of range.
Malformed(data) ==
  { <<>>, <<4>> \o Tail(data), <<255>> \o Tail(data),
    SubSeq(data, 1, Len(data) - 1), data \o <<0>> }
    \cup (IF data[1] = 1
           THEN { [data EXCEPT ![2] = 2], [data EXCEPT ![19] = 3] }
           ELSE {})

----------------------------------------------------------------------------
(* The state machine: one step is one instruction processed by             *)
(* Processor::process.                                                     *)

NoOp == [op |-> "none", args |-> <<>>, transfers |-> <<>>,
         pre_balance |-> <<>>]

Init ==
  /\ markets = [m \in MarketAccts |-> ZeroMarket]
  /\ orders = [o \in OrderAccts |-> ZeroOrder]
  /\ balance = [h \in Holders |->
                  IF h \in OwnerTokenAccts THEN InitialBalance ELSE 0]
  /\ last = NoOp
  /\ placed = [m \in MarketAccts |-> <<>>]
  /\ nops = 0

\* The host commits the outcome of an instruction; a failing instruction
\* leaves every account as it was.  last records the committed instruction:
\* its arguments, the transfers the ledger carried out for it and the
\* balances before it.
Commit(op, args, out) ==
  IF out.result = "Ok"
    THEN /\ nops < MaxOps
         /\ markets' = out.markets
         /\ orders' = out.orders
         /\ balance' = out.balance
         /\ nops' = nops + 1
         /\ last' = [op |-> op, args |-> args, transfers |-> out.transfers,
                     pre_balance |-> balance]
         /\ placed' = IF op = "PlaceLimitOrder"
                        THEN [placed EXCEPT ![args.market] =
                                Append(@, out.orders[args.order].order_id)]
                        ELSE placed
    ELSE UNCHANGED vars

\* The instructions clients send: each call with its instruction data.
InitializeRequests ==
  { <<c, InstructionData("InitializeMarket", c)>> : c \in InitializeCalls }

PlaceRequests == { <<c, InstructionData("PlaceLimitOrder", c)>> : c \in PlaceCalls }

CancelRequests == { <<c, InstructionData("CancelOrder", c)>> : c \in CancelCalls }

SettleRequests == { <<c, InstructionData("SettleFunds", c)>> : c \in SettleCalls }

InitializeMarket ==
  \E r \in InitializeRequests : Commit("InitializeMarket", r[1], process(r[1], r[2]))

PlaceLimitOrder ==
  \E r \in PlaceRequests : Commit("PlaceLimitOrder", r[1], process(r[1], r[2]))

CancelOrder ==
  \E r \in CancelRequests : Commit("CancelOrder", r[1], process(r[1], r[2]))

SettleFunds ==
  \E r \in SettleRequests : Commit("SettleFunds", r[1], process(r[1], r[2]))

\* Instruction data that is not an instruction: decoding fails before any
\* account is looked at, so one list of accounts, holding what each of the
\* four handlers would ask for, stands for all.
MalformedCalls ==
  { [is_signer |-> TRUE, authority |-> "alice", owner |-> "alice",
     market |-> "m1", order |-> "o1", token |-> "ta", base_mint |-> "mintB",
     quote_mint |-> "mintQ", timestamp |-> 100,
     accounts |-> [taker_base |-> "ta", taker_quote |-> "ta",
                   maker_base |-> "tb", maker_quote |-> "tb",
                   fee_recipient |-> "tf"]] }

\* Malformed buffers made from InitializeMarket{3, 2, 2500},
\* PlaceLimitOrder{buy, 2, 3, DecrementTake}, CancelOrder and
\* SettleFunds{1, 4}.
MalformedData ==
  Malformed(<<0, 3, 0, 0, 0, 0, 0, 0, 0, 2, 0, 0, 0, 0, 0, 0, 0, 196, 9>>)
    \cup Malformed(<<1, 1, 2, 0, 0, 0, 0, 0, 0, 0, 3, 0, 0, 0, 0, 0, 0, 0, 0>>)
    \cup Malformed(<<2>>)
    \cup Malformed(<<3, 1, 0, 0, 0, 0, 0, 0, 0, 4, 0, 0, 0, 0, 0, 0, 0>>)

MalformedInstruction ==
  \E c \in MalformedCalls, data \in MalformedData :
    Commit("MalformedInstruction", c, process(c, data))

Next ==
  \/ InitializeMarket
  \/ PlaceLimitOrder
  \/ CancelOrder
  \/ SettleFunds
  \/ MalformedInstruction

Spec == Init /\ [][Next]_vars

----------------------------------------------------------------------------
(* The record functions on their own: Market::calculate_fee and the Pack   *)
(* implementations of Market and Order, applied to records drawn from      *)
(* bounded sets.  last records the function applied and what it returned.  *)

FeeRates == {0, 25, 10000, 65535}

\* Market records over bounded field values.
SampleMarkets ==
  { [is_initialized |-> i, authority |-> a, base_mint |-> "mintB",
     quote_mint |-> "mintQ", min_base_order_size |-> 100, tick_size |-> 10,
     fee_rate_bps |-> f, next_order_id |-> n, num_bids |-> b, num_asks |-> 2] :
     i \in BOOLEAN, a \in {"alice", NoKey}, f \in FeeRates, n \in {1, 70000},
     b \in {0, 1} } \cup {ZeroMarket}

\* Order records over bounded field values.
SampleOrders ==
  { [is_initialized |-> i, order_id |-> 258, owner |-> "alice", market |-> "m1",
     is_buy |-> b, limit_price |-> p, original_quantity |-> 500,
     remaining_quantity |-> r, creation_timestamp |-> 1700000000] :
     i \in BOOLEAN, b \in BOOLEAN, p \in {0, 1000}, r \in {0, 500} }
    \cup {ZeroOrder}

\* The trade values calculate_fee is applied to.
TradeValues == {0, 1, 4, 1000000, 107375, U64_MAX}

RecordInit ==
  /\ \E market \in SampleMarkets :
       markets = [m \in MarketAccts |-> IF m = "m1" THEN market ELSE ZeroMarket]
  /\ \E order \in SampleOrders :
       orders = [o \in OrderAccts |-> IF o = "o1" THEN order ELSE ZeroOrder]
  /\ balance = [h \in Holders |-> 0]
  /\ last = NoOp
  /\ placed = [m \in MarketAccts |-> <<>>]
  /\ nops = 0

\* market.calculate_fee(trade_value)
CalculateFee ==
  \E m \in MarketAccts, trade_value \in TradeValues :
    /\ last' = [op |-> "calculate_fee",
                args |-> [fee_rate_bps |-> markets[m].fee_rate_bps,
                          trade_value |-> trade_value],
                result |-> calculate_fee(markets[m], trade_value)]
    /\ UNCHANGED <<markets, orders, balance, placed, nops>>

\* A Market record is packed into its account and unpacked again.
StoreMarket ==
  \E m \in MarketAccts :
    LET data == Market_pack_into_slice(markets[m])
    IN  /\ markets' = [markets EXCEPT ![m] = Market_unpack_from_slice(data)]
        /\ last' = [op |-> "StoreMarket", args |-> m, result |-> data]
        /\ UNCHANGED <<orders, balance, placed, nops>>

\* An Order record is packed into its account and unpacked again.
StoreOrder ==
  \E o \in OrderAccts :
    LET data == Order_pack_into_slice(orders[o])
    IN  /\ orders' = [orders EXCEPT ![o] = Order_unpack_from_slice(data)]
        /\ last' = [op |-> "StoreOrder", args |-> o, result |-> data]
        /\ UNCHANGED <<markets, balance, placed, nops>>

RecordNext == CalculateFee \/ StoreMarket \/ StoreOrder

RecordSpec == RecordInit /\ [][RecordNext]_vars

----------------------------------------------------------------------------
(* Properties *)

\* A step that commits an instruction.
Committed(op) == nops' = nops + 1 /\ last'.op = op

\* The open orders of one side that reference market account m.
OpenOrders(m, is_buy) ==
  {o \in OrderAccts : /\ orders[o].is_initialized
                      /\ orders[o].market = m
                      /\ orders[o].is_buy = is_buy}

\* limit_price is a multiple of tick_size.
IsMultiple(limit_price, tick_size) ==
  \E k \in 0..limit_price : limit_price = k * tick_size

\* An outcome that changed nothing: no account written, no transfer asked for.
NoEffect(out) ==
  /\ out.markets = markets
  /\ out.orders = orders
  /\ out.balance = balance
  /\ out.transfers = <<>>
  /\ out.wrote = FALSE

\* C1: on every market account the order ids assigned by successful
\* placements increase by exactly 1 from one placement to the next, and no
\* two placements were assigned the same id.
C1_OrderIdsNeverReused ==
  \A m \in MarketAccts :
    /\ \A i \in 1..(Len(placed[m]) - 1) : placed[m][i + 1] = placed[m][i] + 1
    /\ \A i, j \in 1..Len(placed[m]) : i # j => placed[m][i] # placed[m][j]

\* C2: num_bids (num_asks) of every initialized market equals the number of
\* initialized buy (sell) orders whose market field is that market.
C2_CountsMatchOpenOrders ==
  \A m \in MarketAccts :
    markets[m].is_initialized =>
      /\ markets[m].num_bids = Cardinality(OpenOrders(m, TRUE))
      /\ markets[m].num_asks = Cardinality(OpenOrders(m, FALSE))

\* C3: a placement directly followed by the cancellation of that order by
\* the same owner, on the same market, order account and token account,
\* releases exactly the locked amount (limit_price*quantity for a buy,
\* quantity for a sell): the owner's balance and the order's custody balance
\* are what they were before the placement, and the count of the order's
\* side goes down by 1 (floor 0).
C3_PlaceThenCancelRoundTrip ==
  [][ ( /\ last.op = "PlaceLimitOrder"
        /\ Committed("CancelOrder")
        /\ last'.args.owner = last.args.owner
        /\ last'.args.market = last.args.market
        /\ last'.args.order = last.args.order
        /\ last'.args.token = last.args.token )
      => LET a == last.args
             locked == IF a.is_buy THEN a.limit_price * a.quantity ELSE a.quantity
         IN  /\ last'.transfers =
                  <<TransferRequest(a.order, a.token, a.order, locked)>>
             /\ balance'[a.token] = last.pre_balance[a.token]
             /\ balance'[a.order] = last.pre_balance[a.order]
             /\ balance'[a.token] = balance[a.token] + locked
             /\ markets'[a.market].num_bids =
                  IF a.is_buy
                    THEN saturating_sub(markets[a.market].num_bids, 1)
                    ELSE markets[a.market].num_bids
             /\ markets'[a.market].num_asks =
                  IF a.is_buy
                    THEN markets[a.market].num_asks
                    ELSE saturating_sub(markets[a.market].num_asks, 1)
    ]_vars

\* C3 witness: a buy order was placed and then cancelled back into the token
\* account it was paid from, in a run of three instructions (initialize,
\* place, cancel).
C3_Witness ==
  /\ nops = 3
  /\ last.op = "CancelOrder"
  /\ last.transfers[1].amount = 6
  /\ last.args.token = "ta"
  /\ balance["ta"] = InitialBalance
  /\ balance["tb"] = InitialBalance

\* C4: a committed PlaceLimitOrder made exactly one transfer, from the
\* owner's token account to the order's custody balance under the owner's
\* authority, of limit_price*quantity for a buy and quantity for a sell.
C4_PlaceLocksCollateral ==
  last.op = "PlaceLimitOrder" =>
    LET a == last.args
        locked == IF a.is_buy THEN a.limit_price * a.quantity ELSE a.quantity
    IN  /\ last.transfers = <<TransferRequest(a.token, a.order, a.owner, locked)>>
        /\ balance[a.token] = last.pre_balance[a.token] - locked
        /\ balance[a.order] = last.pre_balance[a.order] + locked
        /\ \A h \in Holders \ {a.token, a.order} : balance[h] = last.pre_balance[h]

\* C4 witness: a buy order of price 2 and quantity 3 locked 6.
C4_Witness ==
  /\ last.op = "PlaceLimitOrder"
  /\ last.args.is_buy
  /\ last.args.limit_price = 2
  /\ last.args.quantity = 3
  /\ last.transfers[1].amount = 6

\* C5: a committed PlaceLimitOrder leaves an initialized order whose
\* order_id is the market's next_order_id before the call, whose owner,
\* market, side and price are the call's, whose remaining and original
\* quantity are the call's quantity, and the market's next_order_id is 1
\* greater than before.
C5_PlaceWritesOrder ==
  [][ Committed("PlaceLimitOrder")
      => LET a == last'.args
             order == orders'[a.order]
         IN  /\ order.is_initialized
             /\ order.order_id = markets[a.market].next_order_id
             /\ order.owner = a.owner
             /\ order.market = a.market
             /\ order.is_buy = a.is_buy
             /\ order.limit_price = a.limit_price
             /\ order.original_quantity = a.quantity
             /\ order.remaining_quantity = a.quantity
             /\ markets'[a.market].next_order_id =
                  markets[a.market].next_order_id + 1
    ]_vars

\* C5 witness: the second placement on a market was given order_id 2.
C5_Witness ==
  /\ last.op = "PlaceLimitOrder"
  /\ orders[last.args.order].order_id = 2
  /\ markets[last.args.market].next_order_id = 3

\* C6: a committed InitializeMarket leaves the market record initialized with
\* the signer as authority, the referenced mints, the three parameters of
\* the call, next_order_id 1 and both counts 0.
C6_InitializeWritesMarket ==
  last.op = "InitializeMarket" =>
    LET a == last.args
        market == markets[a.market]
    IN  /\ a.is_signer
        /\ market.is_initialized
        /\ market.authority = a.authority
        /\ market.base_mint = a.base_mint
        /\ market.quote_mint = a.quote_mint
        /\ market.min_base_order_size = a.min_base_order_size
        /\ market.tick_size = a.tick_size
        /\ market.fee_rate_bps = a.fee_rate_bps
        /\ market.next_order_id = 1
        /\ market.num_bids = 0
        /\ market.num_asks = 0

\* C6 witness: a market was initialized with minimum size 3, tick size 2 and
\* fee rate 2500.
C6_Witness ==
  /\ last.op = "InitializeMarket"
  /\ markets[last.args.market].min_base_order_size = 3
  /\ markets[last.args.market].tick_size = 2
  /\ markets[last.args.market].fee_rate_bps = 2500

\* C7: once a market account holds an initialized Market, no instruction
\* replaces its authority, mints, minimum size, tick size or fee rate, and
\* only a placement or a cancellation changes the record at all.
C7_MarketCreatedOnce ==
  [][ \A m \in MarketAccts :
        markets[m].is_initialized =>
          /\ markets'[m].is_initialized
          /\ markets'[m].authority = markets[m].authority
          /\ markets'[m].base_mint = markets[m].base_mint
          /\ markets'[m].quote_mint = markets[m].quote_mint
          /\ markets'[m].min_base_order_size = markets[m].min_base_order_size
          /\ markets'[m].tick_size = markets[m].tick_size
          /\ markets'[m].fee_rate_bps = markets[m].fee_rate_bps
          /\ markets'[m] # markets[m] =>
               last'.op \in {"PlaceLimitOrder", "CancelOrder"}
    ]_vars

\* C8: PlaceLimitOrder by a signer on an initialized market with a quantity
\* below the market's minimum fails with InvalidOrderSize and changes no
\* market, no order and no balance.
C8_SmallOrderRejected ==
  \A m \in MarketAccts, quantity \in Quantities :
    (markets[m].is_initialized /\ quantity < markets[m].min_base_order_size)
      => \A owner \in Keys, o \in OrderAccts, t \in OwnerTokenAccts,
            is_buy \in BOOLEAN, limit_price \in Prices,
            stb \in PlacedBehaviors, now \in Timestamps :
           LET out == process_place_limit_order(TRUE, owner, m, o, t, is_buy,
                                                limit_price, quantity, stb, now)
           IN  out.result = "InvalidOrderSize" /\ NoEffect(out)

\* C8 witness: a market with minimum size 3 exists, on which a placement of
\* quantity 1 ends in InvalidOrderSize.
C8_Witness ==
  \E m \in MarketAccts :
    /\ markets[m].is_initialized
    /\ markets[m].min_base_order_size = 3
    /\ process_place_limit_order(TRUE, "alice", m, "o1", "ta", TRUE, 2, 1,
                                 "DecrementTake", 100).result = "InvalidOrderSize"

\* C9: PlaceLimitOrder by a signer on an initialized market, with a quantity
\* of at least the minimum and a limit_price that is not a multiple of the
\* market's tick_size, fails with InvalidOrderPrice and changes no market,
\* no order and no balance, whatever tick_size the market was initialized
\* with.
C9_OffTickOrderRejected ==
  \A owner \in Keys, m \in MarketAccts, o \in OrderAccts, t \in OwnerTokenAccts,
     is_buy \in BOOLEAN, limit_price \in Prices, quantity \in Quantities,
     stb \in SelfTradeBehavior, now \in Timestamps :
    ( /\ markets[m].is_initialized
      /\ quantity >= markets[m].min_base_order_size
      /\ ~IsMultiple(limit_price, markets[m].tick_size) )
      => LET out == process_place_limit_order(TRUE, owner, m, o, t, is_buy,
                                              limit_price, quantity, stb, now)
         IN  out.result = "InvalidOrderPrice" /\ NoEffect(out)

\* C10: CancelOrder on an initialized order by a caller that is not the
\* order's recorded owner fails with AccountNotAuthorized, asks for no
\* transfer and changes no order, no market and no balance.
C10_CancelByNonOwnerRejected ==
  \A is_signer \in BOOLEAN, owner \in Keys, m \in MarketAccts, o \in OrderAccts,
     t \in OwnerTokenAccts :
    (orders[o].is_initialized /\ orders[o].owner # owner)
      => LET out == process_cancel_order(is_signer, owner, m, o, t)
         IN  out.result = "AccountNotAuthorized" /\ NoEffect(out)

\* C10 witness: alice's order is open on its market, and bob's signed
\* cancellation of it ends in AccountNotAuthorized.
C10_Witness ==
  \E o \in OrderAccts :
    /\ last.op = "PlaceLimitOrder"
    /\ last.args.order = o
    /\ orders[o].is_initialized
    /\ orders[o].owner = "alice"
    /\ markets[orders[o].market].is_initialized
    /\ process_cancel_order(TRUE, "bob", orders[o].market, o, "tb").result
         = "AccountNotAuthorized"

\* C11: SettleFunds moves balances only for a caller that signed and is the
\* market's recorded authority: a call that is unsigned, or signed by another
\* identity than the authority of the initialized market, fails with
\* AccountNotAuthorized, and no call by a non-signer or a non-authority
\* succeeds, asks for a transfer or changes a record or a balance.
C11_SettleOnlyByAuthority ==
  \A is_signer \in BOOLEAN, authority \in Keys, m \in MarketAccts,
     accts \in SettleAccounts, base_amount \in BaseAmounts,
     quote_amount \in QuoteAmounts :
    LET out == process_settle_funds(is_signer, authority, m, accts,
                                    base_amount, quote_amount)
    IN  /\ (~is_signer \/ markets[m].authority # authority)
              => (out.result # "Ok" /\ NoEffect(out))
        /\ (~is_signer \/ (markets[m].is_initialized
                             /\ markets[m].authority # authority))
              => out.result = "AccountNotAuthorized"

\* C11 witness: a market whose authority is alice and whose settlement by
\* alice would go through, while bob's signed call and alice's unsigned call
\* end in AccountNotAuthorized.
C11_Witness ==
  \E m \in MarketAccts, accts \in SettleAccounts :
    /\ markets[m].is_initialized
    /\ markets[m].authority = "alice"
    /\ process_settle_funds(TRUE, "alice", m, accts, 1, 4).result = "Ok"
    /\ process_settle_funds(TRUE, "bob", m, accts, 1, 4).result
         = "AccountNotAuthorized"
    /\ process_settle_funds(FALSE, "alice", m, accts, 1, 4).result
         = "AccountNotAuthorized"

\* The balances after the ledger carried out a sequence of transfers.
RECURSIVE BalanceAfter(_, _)
BalanceAfter(bal, transfers) ==
  IF transfers = <<>> THEN bal
  ELSE BalanceAfter(ApplyTransfer(bal, Head(transfers)), Tail(transfers))

\* The total a sequence of transfers debits from one holder.
RECURSIVE Debited(_, _)
Debited(h, transfers) ==
  IF transfers = <<>> THEN 0
  ELSE (IF Head(transfers).from = h THEN Head(transfers).amount ELSE 0)
         + Debited(h, Tail(transfers))

\* C12: a committed SettleFunds(base_amount, quote_amount) on a market with
\* fee rate r made, under the market's authority, the transfer of base_amount
\* from the maker's base account to the taker's base account, then of
\* quote_amount - fee from the taker's quote account to the maker's quote
\* account, then (when fee > 0) of fee to the fee recipient, with
\* fee = floor(quote_amount * r / 10000); the quote transfers debit the taker
\* quote_amount in total and the balances are the former ones after these
\* transfers.
C12_SettleTransfers ==
  last.op = "SettleFunds" =>
    LET a == last.args
        acc == a.accounts
        fee == (a.quote_amount * markets[a.market].fee_rate_bps) \div 10000
        quote_transfers == Tail(last.transfers)
    IN  /\ last.transfers[1] =
              TransferRequest(acc.maker_base, acc.taker_base, a.market,
                              a.base_amount)
        /\ last.transfers[2] =
              TransferRequest(acc.taker_quote, acc.maker_quote, a.market,
                              a.quote_amount - fee)
        /\ IF fee > 0
              THEN /\ Len(last.transfers) = 3
                   /\ last.transfers[3] =
                        TransferRequest(acc.taker_quote, acc.fee_recipient,
                                        a.market, fee)
              ELSE Len(last.transfers) = 2
        /\ Debited(acc.taker_quote, quote_transfers) = a.quote_amount
        /\ balance = BalanceAfter(last.pre_balance, last.transfers)
        /\ balance[acc.fee_recipient] = last.pre_balance[acc.fee_recipient] + fee

\* C12 witness: a settlement of quote amount 4 at 2500 basis points paid 3 to
\* the maker and the fee of 1 to the fee recipient.
C12_Witness ==
  /\ last.op = "SettleFunds"
  /\ markets[last.args.market].fee_rate_bps = 2500
  /\ last.args.quote_amount = 4
  /\ Len(last.transfers) = 3
  /\ last.transfers[2].amount = 3
  /\ last.transfers[3].amount = 1
  /\ balance["tf"] = last.pre_balance["tf"] + 1

\* floor(trade_value * fee_rate_bps / 10000), formed without the full product.
FloorFee(trade_value, fee_rate_bps) ==
  (trade_value \div 10000) * fee_rate_bps
    + ((trade_value % 10000) * fee_rate_bps) \div 10000

\* trade_value * fee_rate_bps is within the unsigned range.
ProductInRange(trade_value, fee_rate_bps) ==
  fee_rate_bps = 0 \/ trade_value <= U64_MAX \div fee_rate_bps

\* C13 (as stated): for every market with fee_rate_bps <= 10000 and every
\* quote_amount, calculate_fee returns a fee with 0 <= fee <= quote_amount
\* and fee = floor(quote_amount * fee_rate_bps / 10000).
C13_FeeForEveryAmount ==
  (last.op = "calculate_fee" /\ last.args.fee_rate_bps <= 10000) =>
    /\ last.result # Overflow
    /\ 0 <= last.result
    /\ last.result <= last.args.trade_value
    /\ last.result = FloorFee(last.args.trade_value, last.args.fee_rate_bps)

\* C13 (amended): for every market with fee_rate_bps <= 10000 and every
\* quote_amount whose product with fee_rate_bps is within the unsigned 64-bit
\* range, calculate_fee returns a fee with 0 <= fee <= quote_amount and
\* fee = floor(quote_amount * fee_rate_bps / 10000); when the product is out
\* of range it fails with ArithmeticOverflow.
C13_FeeWhenProductInRange ==
  (last.op = "calculate_fee" /\ last.args.fee_rate_bps <= 10000) =>
    IF ProductInRange(last.args.trade_value, last.args.fee_rate_bps)
      THEN /\ last.result # Overflow
           /\ 0 <= last.result
           /\ last.result <= last.args.trade_value
           /\ last.result =
                FloorFee(last.args.trade_value, last.args.fee_rate_bps)
      ELSE last.result = Overflow

\* C13 witness: at 25 basis points the fee on 1000000 is 2500, which leaves
\* 997500.
C13_Witness ==
  /\ last.op = "calculate_fee"
  /\ last.args.fee_rate_bps = 25
  /\ last.args.trade_value = 1000000
  /\ last.result = 2500
  /\ checked_sub(last.args.trade_value, last.result) = 997500

\* C20: every Market record and every Order record packs into exactly its
\* fixed length (139 and 106 bytes), and unpacking the packed bytes gives the
\* record back field for field.
C20_PackUnpackRoundTrip ==
  /\ \A m \in MarketAccts :
       /\ Len(Market_pack_into_slice(markets[m])) = Market_LEN
       /\ Market_unpack_from_slice(Market_pack_into_slice(markets[m]))
            = markets[m]
  /\ \A o \in OrderAccts :
       /\ Len(Order_pack_into_slice(orders[o])) = Order_LEN
       /\ Order_unpack_from_slice(Order_pack_into_slice(orders[o])) = orders[o]

\* C20 witness: an initialized Market whose next_order_id is 70000 was packed
\* into 139 bytes, bytes 116..118 holding 70000 little-endian, and unpacked,
\* next to an initialized buy Order.
C20_Witness ==
  /\ last.op = "StoreMarket"
  /\ markets[last.args].is_initialized
  /\ markets[last.args].authority = "alice"
  /\ markets[last.args].next_order_id = 70000
  /\ markets[last.args].num_bids = 1
  /\ Len(last.result) = 139
  /\ SubSeq(last.result, 116, 118) = <<112, 17, 1>>
  /\ orders["o1"].is_initialized
  /\ orders["o1"].is_buy
  /\ Len(Order_pack_into_slice(orders["o1"])) = 106

\* Prices and quantities whose product is beyond the unsigned range.
LargePrices == {65536}

LargeQuantities == {16384}

C15_FeeRateAtMost10000 ==
  \A m \in MarketAccts :
    markets[m].is_initialized => markets[m].fee_rate_bps <= 10000

\* C16: every initialized Order has a limit_price that is a non-zero multiple
\* of the tick_size of the market it references and an original_quantity of
\* at least that market's min_base_order_size.
C16_OrdersFitTheirMarket ==
  \A o \in OrderAccts :
    orders[o].is_initialized =>
      LET market == markets[orders[o].market]
      IN  /\ orders[o].limit_price > 0
          /\ IsMultiple(orders[o].limit_price, market.tick_size)
          /\ orders[o].original_quantity >= market.min_base_order_size

\* C17: SettleFunds, whether it succeeds or fails, leaves every Market record
\* and every Order record as it was: the account state it hands back holds
\* the same records, and a failing call has written no account.
C17_SettleLeavesRecords ==
  \A is_signer \in BOOLEAN, authority \in Keys, m \in MarketAccts,
     accts \in SettleAccounts, base_amount \in BaseAmounts,
     quote_amount \in QuoteAmounts :
    LET out == process_settle_funds(is_signer, authority, m, accts,
                                    base_amount, quote_amount)
    IN  /\ out.markets = markets
        /\ out.orders = orders
        /\ out.result # "Ok" => ~out.wrote

\* C17 witness: a settlement went through on a market that counts an open
\* sell order, and the order is still open with its full remaining quantity.
C17_Witness ==
  \E o \in OrderAccts :
    /\ last.op = "SettleFunds"
    /\ balance # last.pre_balance
    /\ orders[o].is_initialized
    /\ ~orders[o].is_buy
    /\ orders[o].market = last.args.market
    /\ orders[o].remaining_quantity = 3
    /\ markets[last.args.market].num_asks = 1
    /\ markets[last.args.market].next_order_id = 2

\* C18: InitializeMarket whose authority did not sign fails with
\* AccountNotAuthorized and writes no account: the market record, like every
\* other record and balance, is unchanged.
C18_UnsignedInitializeRejected ==
  \A authority \in Keys, m \in MarketAccts, base_mint \in BaseMints,
     quote_mint \in QuoteMints, cfg \in MarketConfigs :
    LET out == process_initialize_market(FALSE, authority, m, base_mint,
                                         quote_mint, cfg.min_base_order_size,
                                         cfg.tick_size, cfg.fee_rate_bps)
    IN  /\ out.result = "AccountNotAuthorized"
        /\ out.markets[m] = markets[m]
        /\ NoEffect(out)

\* C18 witness: bob's unsigned InitializeMarket on the market account alice
\* initialized, and on the still zero-filled one, ends in AccountNotAuthorized.
C18_Witness ==
  /\ markets["m1"].is_initialized
  /\ markets["m1"].authority = "alice"
  /\ ~markets["m2"].is_initialized
  /\ \A m \in MarketAccts :
       process_initialize_market(FALSE, "bob", m, "mintB", "mintQ", 1, 0, 0).result
         = "AccountNotAuthorized"

\* C19: instruction data with an unrecognized tag, a truncated payload,
\* trailing bytes, or a bool or self-trade-behavior byte out of range makes
\* Processor::process fail with InvalidInstructionData, with no account
\* written, no transfer asked for and every record and balance unchanged.
C19_MalformedDataRejected ==
  \A c \in MalformedCalls, data \in MalformedData :
    LET out == process(c, data)
    IN  out.result = "InvalidInstructionData" /\ NoEffect(out)

\* C19 witness: with alice's order open on her market, her CancelOrder
\* instruction <<2>> would go through, while the same accounts with a
\* trailing byte, with the tag 4, with no data, and with a PlaceLimitOrder
\* whose bool byte is 2 end in InvalidInstructionData.
C19_Witness ==
  \E c \in MalformedCalls :
    /\ orders[c.order].is_initialized
    /\ process(c, <<2>>).result = "Ok"
    /\ process(c, <<2, 0>>).result = "InvalidInstructionData"
    /\ process(c, <<4>>).result = "InvalidInstructionData"
    /\ process(c, <<>>).result = "InvalidInstructionData"
    /\ process(c, <<1, 2, 2, 0, 0, 0, 0, 0, 0, 0, 3, 0, 0, 0, 0, 0, 0, 0, 0>>).result
         = "InvalidInstructionData"
    /\ process(c, <<1, 1, 2, 0, 0, 0, 0, 0, 0, 0, 3, 0, 0, 0, 0, 0, 0, 0, 0>>).result
         = "Ok"

\* C21: a committed CancelOrder made one release transfer and left the order
\* account zero-filled (is_initialized = FALSE), and for as long as an order
\* account holds no initialized order every signed CancelOrder on it, by any
\* caller with any market and token account, fails with InvalidAccountData,
\* asks for no transfer and changes nothing.
C21_CancelledOrderStaysReleased ==
  /\ last.op = "CancelOrder" =>
       /\ orders[last.args.order] = ZeroOrder
       /\ Len(last.transfers) = 1
       /\ last.transfers[1].from = last.args.order
  /\ \A o \in OrderAccts :
       ~orders[o].is_initialized =>
         \A owner \in Keys, m \in MarketAccts, t \in OwnerTokenAccts :
           LET out == process_cancel_order(TRUE, owner, m, o, t)
           IN  out.result = "InvalidAccountData" /\ NoEffect(out)

\* C21 witness: alice's buy order in o1 was cancelled, which released 6 to
\* her token account; a second signed CancelOrder by her on o1 ends in
\* InvalidAccountData.
C21_Witness ==
  /\ last.op = "CancelOrder"
  /\ last.args.order = "o1"
  /\ last.args.owner = "alice"
  /\ last.transfers = <<TransferRequest("o1", "ta", "o1", 6)>>
  /\ orders["o1"] = ZeroOrder
  /\ markets[last.args.market].is_initialized
  /\ process_cancel_order(TRUE, "alice", last.args.market, "o1", "ta").result
       = "InvalidAccountData"

\* The identity that signed a committed instruction.
Caller(l) ==
  IF l.op \in {"PlaceLimitOrder", "CancelOrder"} THEN l.args.owner
  ELSE l.args.authority

\* A CancelOrder on order account o signed by owner, into a token account of
\* that owner, succeeds and releases exactly amount.
Reclaimable(o, owner, amount) ==
  \E m \in MarketAccts, t \in OwnerTokenAccts :
    /\ tokenOwner[t] = owner
    /\ LET out == process_cancel_order(TRUE, owner, m, o, t)
       IN  /\ out.result = "Ok"
           /\ out.transfers = <<TransferRequest(o, t, o, amount)>>

\* C22: when an order account holds an initialized order of owner O, no
\* instruction committed by another caller takes away O's way back to the
\* collateral: after it a CancelOrder signed by O on that order account
\* still succeeds and releases the amount the order locked.
C22_CollateralReclaimable ==
  [][ \A o \in OrderAccts, owner \in Keys :
        ( /\ orders[o].is_initialized
          /\ orders[o].owner = owner
          /\ nops' = nops + 1
          /\ Caller(last') # owner )
        => \E amount \in {ReleaseAmount(orders[o])} :
             Reclaimable(o, owner, amount)'
    ]_vars

\* The collateral an order record stands for: limit_price*remaining_quantity
\* for an initialized buy order, remaining_quantity for an initialized sell
\* order, nothing for a record that is not initialized.
CustodyObligation(order) ==
  IF ~order.is_initialized THEN 0
  ELSE IF order.is_buy THEN order.limit_price * order.remaining_quantity
  ELSE order.remaining_quantity

\* C23: in every reachable state the custody balance of each order account
\* equals the custody obligation of the order record it holds.
C23_CustodyEqualsObligation ==
  \A o \in OrderAccts : balance[o] = CustodyObligation(orders[o])

\* C24: an order account that holds an initialized order before and after a
\* step holds the same owner, market and order_id after it.
C24_OrderIdentityImmutable ==
  [][ \A o \in OrderAccts :
        (orders[o].is_initialized /\ orders'[o].is_initialized)
          => /\ orders'[o].owner = orders[o].owner
             /\ orders'[o].market = orders[o].market
             /\ orders'[o].order_id = orders[o].order_id
    ]_vars

\* C25: a PlaceLimitOrder whose custody transfer the ledger rejects fails
\* without having written the Order record or the Market record, and a
\* CancelOrder whose release transfer the ledger rejects fails without
\* having written either record.
C25_RejectedTransferLeavesNoWrite ==
  /\ \A c \in PlaceCalls :
       LET out == process_place_limit_order(c.is_signer, c.owner, c.market,
                    c.order, c.token, c.is_buy, c.limit_price, c.quantity,
                    c.self_trade_behavior, c.timestamp)
       IN  out.result = "TransferRejected" =>
             /\ out.orders = orders
             /\ out.markets = markets
             /\ out.balance = balance
             /\ ~out.wrote
  /\ \A c \in CancelCalls :
       LET out == process_cancel_order(c.is_signer, c.owner, c.market, c.order,
                                       c.token)
       IN  out.result = "TransferRejected" =>
             /\ out.orders = orders
             /\ out.markets = markets
             /\ out.balance = balance
             /\ ~out.wrote

\* C26: a CancelOrder signed by the owner of an initialized order that names
\* a market account other than the one the order records fails with
\* InvalidAccountData, asks for no transfer and changes no market, no order
\* and no balance.
C26_CancelOnOtherMarketRejected ==
  \A owner \in Keys, m \in MarketAccts, o \in OrderAccts, t \in OwnerTokenAccts :
    ( /\ orders[o].is_initialized
      /\ orders[o].owner = owner
      /\ orders[o].market # m )
      => LET out == process_cancel_order(TRUE, owner, m, o, t)
         IN  out.result = "InvalidAccountData" /\ NoEffect(out)

\* C26 witness: both market accounts are initialized and alice's order in o1
\* is on m1; her CancelOrder naming m2 ends in InvalidAccountData, the one
\* naming m1 goes through.
C26_Witness ==
  /\ markets["m1"].is_initialized
  /\ markets["m2"].is_initialized
  /\ orders["o1"].is_initialized
  /\ orders["o1"].owner = "alice"
  /\ orders["o1"].market = "m1"
  /\ markets["m1"].num_bids + markets["m1"].num_asks = 1
  /\ process_cancel_order(TRUE, "alice", "m2", "o1", "ta").result
       = "InvalidAccountData"
  /\ process_cancel_order(TRUE, "alice", "m1", "o1", "ta").result = "Ok"

\* C27: a CancelOrder that passes the checks on an order goes through even
\* when the market's count of the order's side is already 0, and a CancelOrder
\* that goes through leaves the count of the order's side at 0 if it was 0
\* and one lower otherwise, and the count of the other side as it was.
C27_CancelDecrementsWithFloor ==
  \A owner \in Keys, m \in MarketAccts, o \in OrderAccts, t \in OwnerTokenAccts :
    LET out   == process_cancel_order(TRUE, owner, m, o, t)
        side  == IF orders[o].is_buy THEN markets[m].num_bids
                 ELSE markets[m].num_asks
        after == IF orders[o].is_buy THEN out.markets[m].num_bids
                 ELSE out.markets[m].num_asks
        other == IF orders[o].is_buy THEN out.markets[m].num_asks
                 ELSE out.markets[m].num_bids
    IN  /\ ( /\ ValidateCancel(TRUE, owner, orders[o], markets[m], m) = "Ok"
             /\ side = 0 )
           => out.result = "Ok"
        /\ out.result = "Ok" =>
             /\ after = (IF side = 0 THEN 0 ELSE side - 1)
             /\ after >= 0
             /\ other = (IF orders[o].is_buy THEN markets[m].num_asks
                         ELSE markets[m].num_bids)

\* C27 witness: alice's buy order is open on m1 while m1, initialized again
\* since, counts no bids; her CancelOrder goes through and leaves num_bids
\* at 0.
C27_Witness ==
  /\ orders["o1"].is_initialized
  /\ orders["o1"].is_buy
  /\ orders["o1"].owner = "alice"
  /\ orders["o1"].market = "m1"
  /\ markets["m1"].num_bids = 0
  /\ LET out == process_cancel_order(TRUE, "alice", "m1", "o1", "ta")
     IN  /\ out.result = "Ok"
         /\ out.markets["m1"].num_bids = 0
         /\ out.orders["o1"] = ZeroOrder

\* Quote amounts whose product with a fee rate of the model's markets is
\* beyond the unsigned range.
LargeQuoteAmounts == {1000000, U64_MAX}

\* C28: when quote_amount * fee_rate_bps is beyond the unsigned range,
\* calculate_fee returns the ArithmeticOverflow failure, not a number, and a
\* SettleFunds with that quote_amount fails without asking for any transfer
\* and without changing a record or a balance; a call that passes the checks
\* on the caller fails with ArithmeticOverflow.
C28_FeeOverflowAbortsSettle ==
  \A is_signer \in BOOLEAN, authority \in Keys, m \in MarketAccts,
     accts \in SettleAccounts, base_amount \in BaseAmounts,
     quote_amount \in QuoteAmounts \cup LargeQuoteAmounts :
    ~ProductInRange(quote_amount, markets[m].fee_rate_bps)
      => LET out == process_settle_funds(is_signer, authority, m, accts,
                                         base_amount, quote_amount)
         IN  /\ calculate_fee(markets[m], quote_amount) = Overflow
             /\ out.result # "Ok"
             /\ NoEffect(out)
             /\ ValidateSettle(is_signer, authority, markets[m]) = "Ok"
                  => out.result = "ArithmeticOverflow"

\* C28 witness: on alice's market with fee_rate_bps 2500 her SettleFunds of
\* quote_amount 4 would go through, while the one of the largest quote_amount
\* ends in ArithmeticOverflow.
C28_Witness ==
  /\ markets["m1"].is_initialized
  /\ markets["m1"].authority = "alice"
  /\ markets["m1"].fee_rate_bps = 2500
  /\ calculate_fee(markets["m1"], U64_MAX) = Overflow
  /\ \E accts \in SettleAccounts :
       /\ process_settle_funds(TRUE, "alice", "m1", accts, 1, 4).result = "Ok"
       /\ process_settle_funds(TRUE, "alice", "m1", accts, 1, U64_MAX).result
            = "ArithmeticOverflow"

\* C29: on a market account whose record has is_initialized = FALSE, a
\* signed PlaceLimitOrder, a signed CancelOrder (on an order account that is
\* empty or holds an order of the signer) and a signed SettleFunds each fail
\* with InvalidAccountData, ask for no transfer and change no record and no
\* balance.
C29_UninitializedMarketRejected ==
  \A m \in MarketAccts :
    ~markets[m].is_initialized =>
      /\ \A owner \in Keys, o \in OrderAccts, t \in OwnerTokenAccts,
            is_buy \in BOOLEAN, limit_price \in Prices, quantity \in Quantities,
            stb \in PlacedBehaviors, now \in Timestamps :
           LET out == process_place_limit_order(TRUE, owner, m, o, t, is_buy,
                        limit_price, quantity, stb, now)
           IN  out.result = "InvalidAccountData" /\ NoEffect(out)
      /\ \A owner \in Keys, o \in OrderAccts, t \in OwnerTokenAccts :
           (orders[o].is_initialized => orders[o].owner = owner)
             => LET out == process_cancel_order(TRUE, owner, m, o, t)
                IN  out.result = "InvalidAccountData" /\ NoEffect(out)
      /\ \A authority \in Keys, accts \in SettleAccounts,
            base_amount \in BaseAmounts, quote_amount \in QuoteAmounts :
           LET out == process_settle_funds(TRUE, authority, m, accts,
                                           base_amount, quote_amount)
           IN  out.result = "InvalidAccountData" /\ NoEffect(out)

\* C29 witness: m1 is initialized, m2 is zero-filled and alice's order in o1
\* is open on m1; her placement, her cancellation of o1 and her settlement go
\* through when they name m1 and end in InvalidAccountData when they name m2.
C29_Witness ==
  /\ markets["m1"].is_initialized
  /\ markets["m1"].authority = "alice"
  /\ ~markets["m2"].is_initialized
  /\ orders["o1"].is_initialized
  /\ orders["o1"].owner = "alice"
  /\ orders["o1"].market = "m1"
  /\ \A m \in MarketAccts :
       LET expected == IF m = "m1" THEN "Ok" ELSE "InvalidAccountData"
       IN  /\ process_place_limit_order(TRUE, "alice", m, "o2", "ta", FALSE, 2, 3,
                "DecrementTake", 100).result = expected
           /\ process_cancel_order(TRUE, "alice", m, "o1", "ta").result = expected
           /\ \E accts \in SettleAccounts :
                process_settle_funds(TRUE, "alice", m, accts, 1, 4).result
                  = expected

\* The sum of the balances bal of the holders in S.
RECURSIVE TotalBalance(_, _)
TotalBalance(bal, S) ==
  IF S = {} THEN 0
  ELSE LET h == CHOOSE x \in S : TRUE
       IN  bal[h] + TotalBalance(bal, S \ {h})

C31_CancelledIsTerminal ==
  [][ (last.op = "CancelOrder" /\ ~orders[last.args.order].is_initialized)
        => ~orders'[last.args.order].is_initialized
    ]_vars

\* C32: every initialized market has tick_size > 0, and a signed
\* PlaceLimitOrder on an initialized market never ends in the panic of a
\* remainder by zero.
C32_TickSizePositive ==
  \A m \in MarketAccts :
    markets[m].is_initialized =>
      /\ markets[m].tick_size > 0
      /\ \A c \in PlaceCalls :
           c.market = m =>
             process_place_limit_order(c.is_signer, c.owner, c.market, c.order,
               c.token, c.is_buy, c.limit_price, c.quantity,
               c.self_trade_behavior, c.timestamp).result # "Panic"

\* The fields of a Market record that InitializeMarket sets from its call.
MarketConfiguration(market) ==
  <<market.is_initialized, market.authority, market.base_mint,
    market.quote_mint, market.min_base_order_size, market.tick_size,
    market.fee_rate_bps>>

\* C33: a PlaceLimitOrder that goes through leaves the Market record of its
\* call with next_order_id and the count of the order's side one higher and
\* with the other count, the authority, the mints, min_base_order_size,
\* tick_size and fee_rate_bps as they were; every other Market record and
\* every Order record other than the one of the order account of the call
\* are unchanged.
C33_PlaceFrame ==
  \A c \in PlaceCalls :
    LET out == process_place_limit_order(c.is_signer, c.owner, c.market,
                 c.order, c.token, c.is_buy, c.limit_price, c.quantity,
                 c.self_trade_behavior, c.timestamp)
        before == markets[c.market]
        after  == out.markets[c.market]
    IN  out.result = "Ok" =>
          /\ after.next_order_id = before.next_order_id + 1
          /\ after.num_bids = before.num_bids + (IF c.is_buy THEN 1 ELSE 0)
          /\ after.num_asks = before.num_asks + (IF c.is_buy THEN 0 ELSE 1)
          /\ MarketConfiguration(after) = MarketConfiguration(before)
          /\ \A m \in MarketAccts \ {c.market} : out.markets[m] = markets[m]
          /\ \A o \in OrderAccts \ {c.order} : out.orders[o] = orders[o]

\* C33 witness: a buy order was placed into o2 on a market that already
\* counted the sell order in o1; the market counts one bid and one ask, its
\* next_order_id is 3 and the order in o1 is as it was placed.
C33_Witness ==
  /\ last.op = "PlaceLimitOrder"
  /\ last.args.is_buy
  /\ last.args.order = "o2"
  /\ orders["o1"].is_initialized
  /\ ~orders["o1"].is_buy
  /\ orders["o1"].order_id = 1
  /\ orders["o1"].market = last.args.market
  /\ orders["o2"].order_id = 2
  /\ markets[last.args.market].num_bids = 1
  /\ markets[last.args.market].num_asks = 1
  /\ markets[last.args.market].next_order_id = 3
  /\ markets[last.args.market].tick_size = 2

\* What a CancelOrder that goes through leaves alone in the records: in the
\* Market record of the call next_order_id, the count of the other side and
\* the configuration, every other Market record, and every Order record
\* other than the cancelled one.
CancelRecordFrame(c, out) ==
  LET before == markets[c.market]
      after  == out.markets[c.market]
  IN  /\ after.next_order_id = before.next_order_id
      /\ IF orders[c.order].is_buy THEN after.num_asks = before.num_asks
         ELSE after.num_bids = before.num_bids
      /\ MarketConfiguration(after) = MarketConfiguration(before)
      /\ \A m \in MarketAccts \ {c.market} : out.markets[m] = markets[m]
      /\ \A o \in OrderAccts \ {c.order} : out.orders[o] = orders[o]

\* C34: a CancelOrder that goes through changes, in the records,
\* only the count of the cancelled order's side and the cancelled Order
\* record, and the only balances it changes are the custody balance of the
\* order account and the balance of a token account of the order's owner.
C34_CancelFrameOwnersBalance ==
  \A c \in CancelCalls :
    LET out == process_cancel_order(c.is_signer, c.owner, c.market, c.order,
                                    c.token)
    IN  out.result = "Ok" =>
          /\ CancelRecordFrame(c, out)
          /\ \A h \in Holders :
               out.balance[h] # balance[h] =>
                 \/ h = c.order
                 \/ h \in TokenAccts /\ tokenOwner[h] = orders[c.order].owner

\* C35: in every reachable state every initialized Order has
\* remaining_quantity <= original_quantity.
C35_RemainingAtMostOriginal ==
  \A o \in OrderAccts :
    orders[o].is_initialized =>
      orders[o].remaining_quantity <= orders[o].original_quantity

\* C35 witness: after a settlement on its market the order placed into o2 is
\* still open with remaining_quantity and original_quantity both 3, while
\* o1 holds no order.
C35_Witness ==
  /\ last.op = "SettleFunds"
  /\ orders["o2"].is_initialized
  /\ orders["o2"].market = last.args.market
  /\ orders["o2"].original_quantity = 3
  /\ orders["o2"].remaining_quantity = 3
  /\ ~orders["o1"].is_initialized
  /\ balance["o2"] > 0

\* Quote amounts whose fee at 2500 basis points rounds down to 0.
SmallQuoteAmounts == {1, 3}

\* C36: a SettleFunds that goes through with fee_rate_bps = 0 or
\* quote_amount*fee_rate_bps < 10000 has a fee of 0 and asks for exactly two
\* transfers, base_amount from the maker's base account to the taker's and
\* the full quote_amount from the taker's quote account to the maker's; the
\* balances are those two transfers applied, and the fee recipient's balance
\* is unchanged.
C36_ZeroFeeSettle ==
  \A c \in SettleCalls, quote_amount \in QuoteAmounts \cup SmallQuoteAmounts :
    LET market == markets[c.market]
        accts  == c.accounts
        out    == process_settle_funds(c.is_signer, c.authority, c.market, accts,
                                       c.base_amount, quote_amount)
        req1   == TransferRequest(accts.maker_base, accts.taker_base, c.market,
                                  c.base_amount)
        req2   == TransferRequest(accts.taker_quote, accts.maker_quote, c.market,
                                  quote_amount)
    IN  ( /\ out.result = "Ok"
          /\ \/ market.fee_rate_bps = 0
             \/ quote_amount * market.fee_rate_bps < 10000 )
        => /\ calculate_fee(market, quote_amount) = 0
           /\ out.transfers = <<req1, req2>>
           /\ out.balance = BalanceAfter(balance, <<req1, req2>>)
           /\ out.balance[accts.fee_recipient] = balance[accts.fee_recipient]

\* C36 witness: a settlement of quote_amount 4 went through on a market with
\* fee_rate_bps 0 with two transfers, the second one of 4, and nothing for
\* the fee recipient; on the other market, at 2500 basis points, a settlement
\* of quote_amount 3 would go through with two transfers as well and one of
\* quote_amount 4 with three.
C36_Witness ==
  /\ last.op = "SettleFunds"
  /\ markets[last.args.market].fee_rate_bps = 0
  /\ Len(last.transfers) = 2
  /\ last.transfers[2].amount = 4
  /\ balance["tf"] = 0
  /\ \E m \in MarketAccts, accts \in SettleAccounts :
       /\ markets[m].is_initialized
       /\ markets[m].fee_rate_bps = 2500
       /\ LET small == process_settle_funds(TRUE, markets[m].authority, m, accts, 1, 3)
              full  == process_settle_funds(TRUE, markets[m].authority, m, accts, 1, 4)
          IN  /\ small.result = "Ok"
              /\ Len(small.transfers) = 2
              /\ small.transfers[2].amount = 3
              /\ full.result = "Ok"
              /\ Len(full.transfers) = 3

\* C37: for every PlaceLimitOrder call, the calls that differ from it only in
\* self_trade_behavior (DecrementTake, CancelProvide, AbortTransaction) have
\* the same outcome: the same result, the same Market and Order records, the
\* same balances and the same transfer.
C37_SelfTradeBehaviorInert ==
  \A c \in PlaceCalls :
    LET out == process_place_limit_order(c.is_signer, c.owner, c.market, c.order,
                 c.token, c.is_buy, c.limit_price, c.quantity,
                 c.self_trade_behavior, c.timestamp)
    IN  \A stb \in SelfTradeBehavior \ {c.self_trade_behavior} :
          process_place_limit_order(c.is_signer, c.owner, c.market, c.order,
                                    c.token, c.is_buy, c.limit_price, c.quantity,
                                    stb, c.timestamp) = out

\* C37 witness: alice's sell order at price 2 is open in o1 on m1; her buy
\* order at the same price on the same market into o2, which would trade
\* against her own order, goes through with each of the three behaviours and
\* locks 6 each time.
C37_Witness ==
  /\ orders["o1"].is_initialized
  /\ orders["o1"].owner = "alice"
  /\ ~orders["o1"].is_buy
  /\ orders["o1"].limit_price = 2
  /\ orders["o1"].market = "m1"
  /\ ~orders["o2"].is_initialized
  /\ \A stb \in SelfTradeBehavior :
       LET out == process_place_limit_order(TRUE, "alice", "m1", "o2", "ta", TRUE,
                                            2, 3, stb, 100)
       IN  /\ out.result = "Ok"
           /\ out.transfers = <<TransferRequest("ta", "o2", "alice", 6)>>
           /\ out.orders["o2"].order_id = 2

----------------------------------------------------------------------------
(* The client side of the wire format: the instruction builders of         *)
(* instruction.rs produce the instruction data and the list of accounts,   *)
(* and the processor decodes the data and reads the accounts by position.  *)
(* last records the instruction built and what the processor makes of it.  *)

\* AccountMeta::new(pubkey, is_signer)
AccountMeta_new(key, signer) ==
  [pubkey |-> key, is_signer |-> signer, is_writable |-> TRUE]

\* AccountMeta::new_readonly(pubkey, is_signer)
AccountMeta_new_readonly(key, signer) ==
  [pubkey |-> key, is_signer |-> signer, is_writable |-> FALSE]

\* rent::id() and system_program::id()
RentId == "SysvarRent"

SystemProgramId == "SystemProgram"

\* DexInstruction::initialize_market
initialize_market(a) ==
  [data |-> InstructionData("InitializeMarket", a),
   accounts |-> << AccountMeta_new(a.market_authority, TRUE),
                   AccountMeta_new(a.market_account, FALSE),
                   AccountMeta_new_readonly(a.base_mint, FALSE),
                   AccountMeta_new_readonly(a.quote_mint, FALSE),
                   AccountMeta_new_readonly(RentId, FALSE),
                   AccountMeta_new_readonly(SystemProgramId, FALSE) >>]

\* DexInstruction::place_limit_order
place_limit_order(a) ==
  [data |-> InstructionData("PlaceLimitOrder", a),
   accounts |-> << AccountMeta_new(a.owner, TRUE),
                   AccountMeta_new(a.market, FALSE),
                   AccountMeta_new(a.order_account, FALSE),
                   AccountMeta_new(a.owner_token_account, FALSE),
                   AccountMeta_new_readonly(a.token_program, FALSE),
                   AccountMeta_new_readonly(SystemProgramId, FALSE) >>]

\* cancel_order that lists the order account before the market.
cancel_order_OrderBeforeMarket(a) ==
  [data |-> InstructionData("CancelOrder", a),
   accounts |-> << AccountMeta_new_readonly(a.owner, TRUE),
                   AccountMeta_new(a.order_account, FALSE),
                   AccountMeta_new(a.market, FALSE),
                   AccountMeta_new(a.owner_token_account, FALSE),
                   AccountMeta_new_readonly(a.token_program, FALSE) >>]

\* DexInstruction::cancel_order
cancel_order(a) ==
  [data |-> InstructionData("CancelOrder", a),
   accounts |-> << AccountMeta_new_readonly(a.owner, TRUE),
                   AccountMeta_new(a.market, FALSE),
                   AccountMeta_new(a.order_account, FALSE),
                   AccountMeta_new(a.owner_token_account, FALSE),
                   AccountMeta_new_readonly(a.token_program, FALSE) >>]

\* DexInstruction::settle_funds
settle_funds(a) ==
  [data |-> InstructionData("SettleFunds", a),
   accounts |-> << AccountMeta_new_readonly(a.authority, TRUE),
                   AccountMeta_new(a.market, FALSE),
                   AccountMeta_new(a.taker, FALSE),
                   AccountMeta_new(a.maker, FALSE),
                   AccountMeta_new(a.taker_base_account, FALSE),
                   AccountMeta_new(a.taker_quote_account, FALSE),
                   AccountMeta_new(a.maker_base_account, FALSE),
                   AccountMeta_new(a.maker_quote_account, FALSE),
                   AccountMeta_new(a.fee_recipient, FALSE),
                   AccountMeta_new_readonly(a.token_program, FALSE) >>]

\* The accounts each handler takes with next_account_info, in the order it
\* takes them.
AccountsRead ==
  [InitializeMarket |->
     <<"market_authority", "market_account", "base_mint", "quote_mint",
       "rent_account", "system_program_account">>,
   PlaceLimitOrder |->
     <<"owner", "market_account", "order_account", "owner_token_account",
       "token_program", "system_program_account">>,
   CancelOrder |->
     <<"owner", "market_account", "order_account", "owner_token_account",
       "token_program">>,
   SettleFunds |->
     <<"authority", "market_account", "taker_account", "maker_account",
       "taker_base_account", "taker_quote_account", "maker_base_account",
       "maker_quote_account", "fee_recipient_account", "token_program">>]

\* What Processor::process makes of a built instruction: the decoded
\* operation and, for each account variable of its handler, the account that
\* next_account_info hands it; the first one is the account whose is_signer
\* the handler tests.
Received(instruction) ==
  LET decoded == DexInstruction_try_from_slice(instruction.data)
      names   == IF decoded = DecodeError THEN <<>> ELSE AccountsRead[decoded.tag]
  IN  [decoded |-> decoded,
       enough  |-> Len(instruction.accounts) >= Len(names),
       read    |-> [i \in 1..Len(names) |->
                      IF i <= Len(instruction.accounts)
                        THEN <<names[i], instruction.accounts[i].pubkey>>
                        ELSE <<names[i], NoKey>>],
       signed  |-> instruction.accounts # <<>> /\ instruction.accounts[1].is_signer]

\* Parameter values of the built instructions.
WireAmounts == {0, 1, 255, 256, 65536, U64_MAX}

WireFeeRates == {0, 25, 256, 65535}

\* The accounts the instructions are built for, each role with a key of its
\* own.
WireAccounts ==
  [market_authority |-> "alice", authority |-> "alice", owner |-> "bob",
   market_account |-> "m1", market |-> "m1", order_account |-> "o1",
   owner_token_account |-> "tb", base_mint |-> "mintB", quote_mint |-> "mintQ",
   token_program |-> "TokenProgram", taker |-> "taker", maker |-> "maker",
   taker_base_account |-> "takerBase", taker_quote_account |-> "takerQuote",
   maker_base_account |-> "makerBase", maker_quote_account |-> "makerQuote",
   fee_recipient |-> "tf"]

\* One instruction as a client built it, with what the processor makes of it.
Built(op, params, instruction) ==
  [op |-> op, args |-> params, instruction |-> instruction,
   received |-> Received(instruction)]

BuildInitializeMarket ==
  \E min_base_order_size \in WireAmounts, tick_size \in WireAmounts,
     fee_rate_bps \in WireFeeRates :
    LET params == [min_base_order_size |-> min_base_order_size,
                   tick_size |-> tick_size, fee_rate_bps |-> fee_rate_bps]
    IN  /\ last' = Built("InitializeMarket", params,
                          initialize_market(params @@ WireAccounts))
        /\ UNCHANGED <<markets, orders, balance, placed, nops>>

BuildPlaceLimitOrder ==
  \E is_buy \in BOOLEAN, limit_price \in WireAmounts, quantity \in WireAmounts,
     self_trade_behavior \in SelfTradeBehavior :
    LET params == [is_buy |-> is_buy, limit_price |-> limit_price,
                   quantity |-> quantity,
                   self_trade_behavior |-> self_trade_behavior]
    IN  /\ last' = Built("PlaceLimitOrder", params,
                          place_limit_order(params @@ WireAccounts))
        /\ UNCHANGED <<markets, orders, balance, placed, nops>>

BuildCancelOrder ==
  /\ last' = Built("CancelOrder", <<>>, cancel_order(WireAccounts))
  /\ UNCHANGED <<markets, orders, balance, placed, nops>>

BuildSettleFunds ==
  \E base_amount \in WireAmounts, quote_amount \in WireAmounts :
    LET params == [base_amount |-> base_amount, quote_amount |-> quote_amount]
    IN  /\ last' = Built("SettleFunds", params,
                          settle_funds(params @@ WireAccounts))
        /\ UNCHANGED <<markets, orders, balance, placed, nops>>

WireNext ==
  \/ BuildInitializeMarket
  \/ BuildPlaceLimitOrder
  \/ BuildCancelOrder
  \/ BuildSettleFunds

WireSpec == Init /\ [][WireNext]_vars

\* C38: for each of the four builders and every parameter value, the data
\* the builder produces decodes to the operation it was built for with the
\* same parameters, and the accounts it lists are as many as the handler
\* takes and reach the handler's account variables in the builder's meaning:
\* the signing authority or owner first, marked as signer, then the market,
\* and so on down to the token program or system program.
C38_DecodingInvertsBuilders ==
  last.op # "none" =>
    LET r == last.received
        k == WireAccounts
        expected ==
          [InitializeMarket |->
             << <<"market_authority", k.market_authority>>,
                <<"market_account", k.market_account>>,
                <<"base_mint", k.base_mint>>,
                <<"quote_mint", k.quote_mint>>,
                <<"rent_account", RentId>>,
                <<"system_program_account", SystemProgramId>> >>,
           PlaceLimitOrder |->
             << <<"owner", k.owner>>,
                <<"market_account", k.market>>,
                <<"order_account", k.order_account>>,
                <<"owner_token_account", k.owner_token_account>>,
                <<"token_program", k.token_program>>,
                <<"system_program_account", SystemProgramId>> >>,
           CancelOrder |->
             << <<"owner", k.owner>>,
                <<"market_account", k.market>>,
                <<"order_account", k.order_account>>,
                <<"owner_token_account", k.owner_token_account>>,
                <<"token_program", k.token_program>> >>,
           SettleFunds |->
             << <<"authority", k.authority>>,
                <<"market_account", k.market>>,
                <<"taker_account", k.taker>>,
                <<"maker_account", k.maker>>,
                <<"taker_base_account", k.taker_base_account>>,
                <<"taker_quote_account", k.taker_quote_account>>,
                <<"maker_base_account", k.maker_base_account>>,
                <<"maker_quote_account", k.maker_quote_account>>,
                <<"fee_recipient_account", k.fee_recipient>>,
                <<"token_program", k.token_program>> >>]
    IN  /\ r.decoded # DecodeError
        /\ r.decoded.tag = last.op
        /\ r.decoded = (IF last.op = "CancelOrder" THEN [tag |-> last.op]
                        ELSE [tag |-> last.op] @@ last.args)
        /\ r.enough
        /\ r.signed
        /\ Len(last.instruction.accounts) = Len(AccountsRead[last.op])
        /\ r.read = expected[last.op]

\* C38 witness: place_limit_order built a buy at limit_price 65536 and
\* quantity 256 with CancelProvide into 19 bytes and six accounts; the
\* processor decodes the same four parameters and takes bob as owner, m1 as
\* market account and o1 as order account.
C38_Witness ==
  /\ last.op = "PlaceLimitOrder"
  /\ last.args = [is_buy |-> TRUE, limit_price |-> 65536, quantity |-> 256,
                  self_trade_behavior |-> "CancelProvide"]
  /\ last.instruction.data
       = <<1, 1, 0, 0, 1, 0, 0, 0, 0, 0, 0, 1, 0, 0, 0, 0, 0, 0, 1>>
  /\ Len(last.instruction.accounts) = 6
  /\ last.received.decoded.limit_price = 65536
  /\ last.received.decoded.quantity = 256
  /\ last.received.decoded.self_trade_behavior = "CancelProvide"
  /\ last.received.read[1] = <<"owner", "bob">>
  /\ last.received.read[2] = <<"market_account", "m1">>
  /\ last.received.read[3] = <<"order_account", "o1">>

====
